---- MODULE Spec2Model ----
(***************************************************************************)
(* A model of gcode.py: Line (one instruction), Layer (a run of Lines) and *)
(* Gcode (a preamble Layer and a list of Layers).                          *)
(*                                                                         *)
(* Text is a sequence of one-character strings, so that splitting,         *)
(* pattern matching, number parsing and number formatting are computed on  *)
(* characters as the Python code computes them.                            *)
(*                                                                         *)
(* Optional values (Python None) are sequences of length 0 or 1:           *)
(* <<>> is None and <<v>> is the value v.                                  *)
(*                                                                         *)
(* Numbers: an int is [kind |-> "int", n |-> n]; a float is the decimal    *)
(* [kind |-> "float", neg, m, e] standing for (-1)^neg * m * 10^e with m   *)
(* not divisible by 10.  This is exact for the numerals of the model,      *)
(* which have few digits: a float of up to 12 significant digits is the    *)
(* decimal that str() prints for it.                                       *)
(***************************************************************************)
EXTENDS Integers, Sequences, FiniteSets, TLC

VARIABLES
    ltext,      \* SpecLine: the text last given to Line(...)
    lobj,       \* SpecLine: the Line built from it (None before)
    lout,       \* SpecLine: the text Line.construct returned (None before)
    lobj2,      \* SpecLine: the Line built from lout (None before)
    layer,      \* SpecLayer: a Layer built by Layer(lines) (None before)
    ext,        \* SpecLayer: what Layer.extents returned (None before)
    filestring, \* the text given to Gcode.parse
    preamble,   \* Gcode.preamble: None or a Layer
    layers,     \* Gcode.layers: a sequence of Layers
    perr,       \* outcome of the parse call: "none" (not called), "ok" or the exception
    pmode,      \* the branch the parse call took: "none", "empty", "marker", "heuristic"
    shifted,    \* the last Gcode.shift call: its arguments, and the layers and
                \* preamble it was called on (None before)
    out,        \* what Gcode.construct returned (None before)
    re          \* the Gcode object built from out (None before)

vars == <<ltext, lobj, lout, lobj2, layer, ext, filestring, preamble, layers,
          perr, pmode, shifted, out, re>>

---------------------------------------------------------------------------
(* Bounds of the model *)

\* most lines in an input file
MaxLines == 3
\* most argument tokens in a line given to Line(...)
MaxArgs == 2
\* most lines given to Layer(...) in SpecLayer
MaxLayerLines == 3

---------------------------------------------------------------------------
(* Characters and Python string primitives *)

None == <<>>
Some(v) == <<v>>

\* F(v), with v evaluated once: a local variable holding a computed value
With(v, F(_)) == CHOOSE r \in {F(x) : x \in {v}} : TRUE

DigitChars == <<"0", "1", "2", "3", "4", "5", "6", "7", "8", "9">>

\* str.isspace for the characters str.split() splits on
IsSpace(c) == c \in {" ", "\t", "\n", "\r", "\f"}

\* \d of the re module
IsDigit(c) == \E i \in 1..10 : DigitChars[i] = c

\* [A-Za-z] of the re module
IsAlpha(c) ==
    c \in {"A", "B", "C", "D", "E", "F", "G", "H", "I", "J", "K", "L", "M",
           "N", "O", "P", "Q", "R", "S", "T", "U", "V", "W", "X", "Y", "Z",
           "a", "b", "c", "d", "e", "f", "g", "h", "i", "j", "k", "l", "m",
           "n", "o", "p", "q", "r", "s", "t", "u", "v", "w", "x", "y", "z"}

DigitVal(c) == (CHOOSE i \in 1..10 : DigitChars[i] = c) - 1

\* s[i:] of Python, i counted from 1 here
From(s, i) == SubSeq(s, i, Len(s))

\* index of the first c in s, 0 when there is none
IndexOf(s, c) ==
    IF \E i \in 1..Len(s) : s[i] = c
    THEN CHOOSE i \in 1..Len(s) : s[i] = c /\ \A j \in 1..(i - 1) : s[j] # c
    ELSE 0

\* s.startswith(sub) at position i
MatchAt(s, i, sub) ==
    /\ i + Len(sub) - 1 <= Len(s)
    /\ SubSeq(s, i, i + Len(sub) - 1) = sub

\* sub in s
Contains(s, sub) == \E i \in 1..(Len(s) - Len(sub) + 1) : MatchAt(s, i, sub)

\* s.split(c, 1)
SplitFirst(s, c) ==
    With(IndexOf(s, c), LAMBDA i :
        IF i = 0 THEN <<s>> ELSE <<SubSeq(s, 1, i - 1), From(s, i + 1)>>)

\* s.split(c)
RECURSIVE SplitAll(_, _)
SplitAll(s, c) ==
    With(IndexOf(s, c), LAMBDA i :
        IF i = 0 THEN <<s>>
        ELSE <<SubSeq(s, 1, i - 1)>> \o SplitAll(From(s, i + 1), c))

\* index of the first whitespace character of s, Len(s) + 1 when there is none
FirstSpace(s) ==
    IF \E i \in 1..Len(s) : IsSpace(s[i])
    THEN CHOOSE i \in 1..Len(s) :
            IsSpace(s[i]) /\ \A j \in 1..(i - 1) : ~IsSpace(s[j])
    ELSE Len(s) + 1

\* index of the first character of s that is no whitespace, Len(s) + 1 when
\* there is none
FirstNonSpace(s) ==
    IF \E i \in 1..Len(s) : ~IsSpace(s[i])
    THEN CHOOSE i \in 1..Len(s) :
            ~IsSpace(s[i]) /\ \A j \in 1..(i - 1) : IsSpace(s[j])
    ELSE Len(s) + 1

\* s.lstrip()
LStrip(s) == From(s, FirstNonSpace(s))

\* s.split() of a text t that starts with no whitespace
RECURSIVE SplitTokens(_)
SplitTokens(t) ==
    IF t = <<>> THEN <<>>
    ELSE With(FirstSpace(t), LAMBDA n :
            <<SubSeq(t, 1, n - 1)>> \o SplitTokens(LStrip(From(t, n))))

\* s.split()
SplitWS(s) == SplitTokens(LStrip(s))

\* s.split(None, 1) of a text t that starts with no whitespace: the first
\* token, then the rest with only its leading whitespace removed
SplitFirstToken(t) ==
    IF t = <<>> THEN <<>>
    ELSE With(FirstSpace(t), LAMBDA n :
            With(LStrip(From(t, n)), LAMBDA r :
                IF r = <<>> THEN <<SubSeq(t, 1, n - 1)>>
                ELSE <<SubSeq(t, 1, n - 1), r>>))

\* s.split(None, 1)
SplitWS1(s) == SplitFirstToken(LStrip(s))

\* sep.join(parts)
RECURSIVE Join(_, _)
Join(sep, parts) ==
    IF Len(parts) = 0 THEN <<>>
    ELSE IF Len(parts) = 1 THEN parts[1]
    ELSE parts[1] \o sep \o Join(sep, Tail(parts))

---------------------------------------------------------------------------
(* Numbers: int(s), float(s) and '%s' % v *)

RECURSIVE Pow10(_)
Pow10(k) == IF k <= 0 THEN 1 ELSE 10 * Pow10(k - 1)

AllDigits(s) == \A i \in 1..Len(s) : IsDigit(s[i])

RECURSIVE DigitsVal(_)
DigitsVal(s) ==
    IF s = <<>> THEN 0
    ELSE 10 * DigitsVal(SubSeq(s, 1, Len(s) - 1)) + DigitVal(s[Len(s)])

RECURSIVE NatChars(_)
NatChars(n) ==
    IF n < 10 THEN <<DigitChars[n + 1]>>
    ELSE NatChars(n \div 10) \o <<DigitChars[(n % 10) + 1]>>

HasSign(s) == s # <<>> /\ s[1] \in {"+", "-"}
Unsigned(s) == IF HasSign(s) THEN Tail(s) ELSE s
IsNeg(s) == s # <<>> /\ s[1] = "-"

IntV(n) == [kind |-> "int", n |-> n]
StrV(s) == [kind |-> "str", s |-> s]

RECURSIVE Normalize(_, _, _)
Normalize(neg, m, e) ==
    IF m = 0 THEN [kind |-> "float", neg |-> neg, m |-> 0, e |-> 0]
    ELSE IF m % 10 = 0 THEN Normalize(neg, m \div 10, e + 1)
    ELSE [kind |-> "float", neg |-> neg, m |-> m, e |-> e]

\* int(s) accepts an optional sign and one or more digits
IntOk(s) == Unsigned(s) # <<>> /\ AllDigits(Unsigned(s))
IntOf(s) ==
    IntV(IF IsNeg(s) THEN 0 - DigitsVal(Unsigned(s)) ELSE DigitsVal(Unsigned(s)))

\* the parts of a float literal without its sign: <<digits before the
\* point, digits after it, the exponent (None when there is no e)>>
FloatParts(u) ==
    With(IF IndexOf(u, "e") # 0 THEN IndexOf(u, "e") ELSE IndexOf(u, "E"), LAMBDA k :
        With(SplitFirst(IF k = 0 THEN u ELSE SubSeq(u, 1, k - 1), "."), LAMBDA parts :
            <<parts[1],
              IF Len(parts) > 1 THEN parts[2] ELSE <<>>,
              IF k = 0 THEN None ELSE Some(From(u, k + 1))>>))

\* float(s): [sign] digits [. [digits]] | [sign] . digits, then [e [sign] digits]
FloatOk(s) ==
    With(FloatParts(Unsigned(s)), LAMBDA p :
        /\ AllDigits(p[1]) /\ AllDigits(p[2])
        /\ p[1] \o p[2] # <<>>
        /\ p[3] # None => IntOk(p[3][1]))
FloatOf(s) ==
    With(FloatParts(Unsigned(s)), LAMBDA p :
        Normalize(IsNeg(s), DigitsVal(p[1] \o p[2]),
                  (IF p[3] = None THEN 0 ELSE IntOf(p[3][1]).n) - Len(p[2])))

Zeros(k) == [i \in 1..k |-> "0"]

\* the exponent of '%g': a sign and at least two digits
ExpStr(x) ==
    IF x < 0 THEN <<"-">> \o (IF x > -10 THEN <<"0">> ELSE <<>>) \o NatChars(0 - x)
    ELSE <<"+">> \o (IF x < 10 THEN <<"0">> ELSE <<>>) \o NatChars(x)

\* '%.12g' of m * 10^e, m > 0 with the digits d, then '.0' when the result
\* looks like an int; x is the decimal exponent of the leading digit
DecimalStr(d, e, x) ==
    IF x < -4 \/ x >= 12
    THEN <<d[1]>> \o (IF Len(d) > 1 THEN <<".">> \o From(d, 2) ELSE <<>>)
                  \o <<"e">> \o ExpStr(x)
    ELSE IF e >= 0 THEN d \o Zeros(e) \o <<".", "0">>
    ELSE IF x >= 0 THEN SubSeq(d, 1, x + 1) \o <<".">> \o From(d, x + 2)
    ELSE <<"0", ".">> \o Zeros(0 - x - 1) \o d

\* str(v) of a float
FloatStr(v) ==
    (IF v.neg THEN <<"-">> ELSE <<>>)
        \o (IF v.m = 0 THEN <<"0", ".", "0">>
            ELSE With(NatChars(v.m), LAMBDA d : DecimalStr(d, v.e, Len(d) - 1 + v.e)))

IntStr(v) == IF v.n < 0 THEN <<"-">> \o NatChars(0 - v.n) ELSE NatChars(v.n)

\* '%s' % v
ValueStr(v) ==
    IF v.kind = "int" THEN IntStr(v)
    ELSE IF v.kind = "float" THEN FloatStr(v)
    ELSE v.s

---------------------------------------------------------------------------
(* Line *)

AlphaSeq ==
    <<"A", "B", "C", "D", "E", "F", "G", "H", "I", "J", "K", "L", "M",
      "N", "O", "P", "Q", "R", "S", "T", "U", "V", "W", "X", "Y", "Z",
      "a", "b", "c", "d", "e", "f", "g", "h", "i", "j", "k", "l", "m",
      "n", "o", "p", "q", "r", "s", "t", "u", "v", "w", "x", "y", "z">>

\* the key None of Line.args (the unlabeled slot)
NoneKey == "None"

\* dict.iteritems() of CPython 2 walks the hash table: an order fixed by the
\* build, and unrelated to insertion.  The model lets construct run under
\* either of two orders of the keys.
Reverse(s) == [i \in 1..Len(s) |-> s[Len(s) + 1 - i]]
KeyOrders == {<<NoneKey>> \o AlphaSeq, Reverse(AlphaSeq) \o <<NoneKey>>}

EmptyArgs == [k \in {} |-> IntV(0)]
Put(a, k, v) == [x \in (DOMAIN a) \cup {k} |-> IF x = k THEN v ELSE a[x]]

M117 == <<"M", "1", "1", "7">>

\* float(arg[1:]) if '.' in arg[1:] else int(arg[1:])
NumberOk(s) == IF IndexOf(s, ".") # 0 THEN FloatOk(s) ELSE IntOk(s)
NumberOf(s) == IF IndexOf(s, ".") # 0 THEN FloatOf(s) ELSE IntOf(s)

\* the loop over args[1:]: [err, args]
RECURSIVE ArgsLoop(_, _)
ArgsLoop(toks, acc) ==
    IF toks = <<>> THEN [err |-> "ok", args |-> acc]
    ELSE IF IsAlpha(toks[1][1])
    THEN IF NumberOk(Tail(toks[1]))
         THEN With(Put(acc, toks[1][1], NumberOf(Tail(toks[1]))), LAMBDA a :
                  ArgsLoop(Tail(toks), a))
         ELSE [err |-> "ValueError", args |-> acc]
    ELSE With(Put(acc, NoneKey, StrV(toks[1])), LAMBDA a : ArgsLoop(Tail(toks), a))

LineObj(line, comment, code, args) ==
    [err |-> "ok",
     obj |-> [line |-> line, comment |-> comment, code |-> code, args |-> args]]

\* the rest of Line.__init__ once self.line and self.comment are set and the
\* line is split into args
LineOf(line, comment, args) ==
    IF args = <<>> THEN [err |-> "IndexError"]
    ELSE IF args[1] = M117
    THEN With(SplitWS1(line), LAMBDA rest :
            IF Len(rest) < 2 THEN [err |-> "IndexError"]
            ELSE LineObj(line, comment, args[1],
                         Put(EmptyArgs, NoneKey, StrV(rest[2]))))
    ELSE With(ArgsLoop(Tail(args), EmptyArgs), LAMBDA parsed :
            IF parsed.err # "ok" THEN [err |-> parsed.err]
            ELSE LineObj(line, comment, args[1], parsed.args))

\* Line(line): [err |-> "ok", obj |-> the Line], or [err |-> the exception]
LineNew(text) ==
    With(SplitFirst(text, ";"), LAMBDA lc :
        LineOf(lc[1], IF Len(lc) > 1 THEN Some(lc[2]) ELSE None, SplitWS(lc[1])))

\* '%s%s' % (k if k else '', v)
ArgStr(k, v) == (IF k = NoneKey THEN <<>> ELSE <<k>>) \o ValueStr(v)

\* ' ;%s' % self.comment if self.comment else ''
CommentStr(comment) ==
    IF comment # None /\ comment[1] # <<>> THEN <<" ", ";">> \o comment[1] ELSE <<>>

\* Line.construct, with the keys of args met in the order ord
LineConstruct(l, ord) ==
    With(SelectSeq(ord, LAMBDA k : k \in DOMAIN l.args), LAMBDA keys :
        Join(<<" ">>,
             <<l.code>> \o [i \in 1..Len(keys) |-> ArgStr(keys[i], l.args[keys[i]])])
            \o CommentStr(l.comment))

---------------------------------------------------------------------------
(* Layer *)

\* the Layer of the parsed lines made, or the exception of the first line
\* that Line(l) rejected
LayerOf(made, layernum) ==
    IF \E i \in 1..Len(made) : made[i].err # "ok"
    THEN [err |-> made[CHOOSE i \in 1..Len(made) :
                          /\ made[i].err # "ok"
                          /\ \A j \in 1..(i - 1) : made[j].err = "ok"].err]
    ELSE [err |-> "ok",
          obj |-> [layernum |-> layernum,
                   preamble |-> <<>>,
                   lines |-> [i \in 1..Len(made) |-> made[i].obj],
                   postamble |-> <<>>]]

\* [Line(l) for l in lines if l and l[0] != ';']
LinesOf(lines) ==
    With(SelectSeq(lines, LAMBDA l : l # <<>> /\ l[1] # ";"), LAMBDA kept :
        [i \in 1..Len(kept) |-> LineNew(kept[i])])

\* Layer(lines, layernum): [err |-> "ok", obj |-> the Layer], or [err |-> the
\* exception]
LayerNew(lines, layernum) ==
    With(LinesOf(lines), LAMBDA made : LayerOf(made, layernum))

\* a number as a signed decimal m * 10^e
Signed(v) ==
    IF v.kind = "int" THEN [m |-> v.n, e |-> 0]
    ELSE [m |-> IF v.neg THEN 0 - v.m ELSE v.m, e |-> v.e]

Min2(a, b) == IF a < b THEN a ELSE b

\* x < y of two signed decimals
DecLess(x, y) ==
    x.m * Pow10(x.e - Min2(x.e, y.e)) < y.m * Pow10(y.e - Min2(x.e, y.e))

\* a < b of two numbers
NumLess(a, b) == DecLess(Signed(a), Signed(b))

\* x + y of two signed decimals, as a float
DecAdd(x, y) ==
    With(x.m * Pow10(x.e - Min2(x.e, y.e)) + y.m * Pow10(y.e - Min2(x.e, y.e)),
         LAMBDA sum :
            Normalize(sum < 0, IF sum < 0 THEN 0 - sum ELSE sum, Min2(x.e, y.e)))

\* a + b of two numbers: an int when both are ints, else a float
NumAdd(a, b) ==
    IF a.kind = "int" /\ b.kind = "int" THEN IntV(a.n + b.n)
    ELSE DecAdd(Signed(a), Signed(b))

\* variant of AxisKey: a line without the axis counts as 0
AxisKeyZero(l, axis) ==
    IF axis \in DOMAIN l.args THEN Some(l.args[axis]) ELSE Some(IntV(0))

\* l.args.get(axis, float('inf')): None stands for the infinity
AxisKey(l, axis) == IF axis \in DOMAIN l.args THEN Some(l.args[axis]) ELSE None

\* key a < key b, with float('inf') for None
KeyLessInf(a, b) == a # None /\ (b = None \/ NumLess(a[1], b[1]))
\* key a < key b, with float('-inf') for None
KeyLessNegInf(a, b) == b # None /\ (a = None \/ NumLess(a[1], b[1]))

\* min(lines, key = ...) over the keys: the first position of the least key
MinPos(keys) ==
    CHOOSE i \in 1..Len(keys) :
        /\ \A j \in 1..Len(keys) : ~KeyLessInf(keys[j], keys[i])
        /\ \A j \in 1..(i - 1) : KeyLessInf(keys[i], keys[j])

\* max(lines, key = ...) over the keys: the first position of the greatest key
MaxPos(keys) ==
    CHOOSE i \in 1..Len(keys) :
        /\ \A j \in 1..Len(keys) : ~KeyLessNegInf(keys[i], keys[j])
        /\ \A j \in 1..(i - 1) : KeyLessNegInf(keys[j], keys[i])

\* the keys l.args.get(axis, ...) of the lines
AxisKeys(lines, axis) == [i \in 1..Len(lines) |-> AxisKey(lines[i], axis)]

\* the lines that min and max pick for min_x, min_y, max_x, max_y
ExtentPicks(lines) ==
    <<MinPos(AxisKeys(lines, "X")), MinPos(AxisKeys(lines, "Y")),
      MaxPos(AxisKeys(lines, "X")), MaxPos(AxisKeys(lines, "Y"))>>

ExtentAxes == <<"X", "Y", "X", "Y">>

\* Layer.extents: [err |-> "ok", val |-> <<min_x, min_y, max_x, max_y>>];
\* min() of no lines raises ValueError, .args[axis] of a line without the
\* axis raises KeyError
LayerExtents(l) ==
    IF l.lines = <<>> THEN [err |-> "ValueError"]
    ELSE With(ExtentPicks(l.lines), LAMBDA picks :
            IF \E k \in 1..4 : ExtentAxes[k] \notin DOMAIN l.lines[picks[k]].args
            THEN [err |-> "KeyError"]
            ELSE [err |-> "ok",
                  val |-> [k \in 1..4 |-> l.lines[picks[k]].args[ExtentAxes[k]]]])

\* the loop body of Layer.shift for one line
LineShift(l, kwargs) ==
    [l EXCEPT !.args =
        [k \in DOMAIN l.args |->
            IF k \in DOMAIN kwargs THEN NumAdd(l.args[k], kwargs[k]) ELSE l.args[k]]]

\* Layer.shift(**kwargs)
LayerShift(l, kwargs) ==
    [l EXCEPT !.lines = [i \in 1..Len(l.lines) |-> LineShift(l.lines[i], kwargs)]]

\* Layer.construct
LayerConstruct(l, ord) ==
    With(l.preamble \o l.lines \o l.postamble, LAMBDA all :
        Join(<<"\n">>, [i \in 1..Len(all) |-> LineConstruct(all[i], ord)]))

---------------------------------------------------------------------------
(* Gcode *)

LayerMark == <<";", "L", "A", "Y", "E", "R", ":">>

\* the number of digits of s from position j on
DigitRun(s, j) ==
    CHOOSE k \in 0..(Len(s) - j + 1) :
        /\ \A i \in j..(j + k - 1) : IsDigit(s[i])
        /\ j + k <= Len(s) => ~IsDigit(s[j + k])

\* the length of the match of ^;LAYER:\d+\n (re.M) at position i, 0 for none
MarkerLenAt(s, i) ==
    IF (i = 1 \/ s[i - 1] = "\n") /\ MatchAt(s, i, LayerMark)
    THEN With(DigitRun(s, i + Len(LayerMark)), LAMBDA d :
            IF /\ d > 0
               /\ i + Len(LayerMark) + d <= Len(s)
               /\ s[i + Len(LayerMark) + d] = "\n"
            THEN Len(LayerMark) + d + 1
            ELSE 0)
    ELSE 0

\* re.split(r'^;LAYER:\d+\n', s, flags=re.M), scanning from i with the
\* current piece starting at p
RECURSIVE ReSplitFrom(_, _, _)
ReSplitFrom(s, i, p) ==
    IF i > Len(s) THEN <<From(s, p)>>
    ELSE With(MarkerLenAt(s, i), LAMBDA n :
            IF n > 0 THEN <<SubSeq(s, p, i - 1)>> \o ReSplitFrom(s, i + n, i + n)
            ELSE ReSplitFrom(s, i + 1, p))

ReSplit(s) == ReSplitFrom(s, 1, 1)

\* Z-?\.?\d+ at position j of l
ZCoordAt(l, j) ==
    /\ l[j] = "Z"
    /\ With(IF MatchAt(l, j + 1, <<"-">>) THEN j + 2 ELSE j + 1, LAMBDA a :
         With(IF MatchAt(l, a, <<".">>) THEN a + 1 ELSE a, LAMBDA b :
            b <= Len(l) /\ IsDigit(l[b])))

\* re.match(r'G[01]\s.*Z-?\.?\d+', l)
IsLayerStart(l) ==
    /\ Len(l) >= 3
    /\ l[1] = "G"
    /\ l[2] \in {"0", "1"}
    /\ IsSpace(l[3])
    /\ \E j \in 4..Len(l) : ZCoordAt(l, j)

\* self.layers = [Layer(l.split('\n'), layernum=i) for i,l in enumerate(splits[1:])]
\* on the Layer results made: the fields afterwards and the outcome
MarkerLayers(pre, lay, made) ==
    IF \E i \in 1..Len(made) : made[i].err # "ok"
    THEN [preamble |-> pre, layers |-> lay,
          err |-> made[CHOOSE i \in 1..Len(made) :
                          /\ made[i].err # "ok"
                          /\ \A j \in 1..(i - 1) : made[j].err = "ok"].err]
    ELSE [preamble |-> pre,
          layers |-> [i \in 1..Len(made) |-> made[i].obj],
          err |-> "ok"]

\* variant of EnumIndex: counting from 1
EnumIndexOneBased(i) == i

\* the index enumerate gives to the i-th element (i counted from 1)
EnumIndex(i) == i - 1

\* the branch of Gcode.parse for text with ';LAYER:' in it
ParseMarker(pre, lay, fs) ==
    With(ReSplit(fs), LAMBDA splits :
        With(LayerNew(SplitAll(splits[1], "\n"), Some(0)), LAMBDA p :
            IF p.err # "ok"
            THEN [preamble |-> pre, layers |-> lay, err |-> p.err]
            ELSE MarkerLayers(Some(p.obj), lay,
                    [i \in 1..(Len(splits) - 1) |->
                        LayerNew(SplitAll(splits[i + 1], "\n"),
                                 Some(EnumIndex(i)))])))

\* variant of NextLayernum: layernum += 1
NextLayernumIncrement(layernum) == layernum + 1

\* layernum =+ 1
NextLayernum(layernum) == 1

\* the branch of a layer-start line in the loop of Gcode.parse, made being
\* Layer(curr_layer, ...)
LayerStartStep(st, l, made) ==
    IF made.err # "ok" THEN [st EXCEPT !.err = made.err]
    ELSE IF st.in_preamble
    THEN [st EXCEPT !.preamble = Some(made.obj),
                    !.in_preamble = FALSE,
                    !.curr_layer = <<l>>]
    ELSE [st EXCEPT !.layers = Append(st.layers, made.obj),
                    !.layernum = NextLayernum(st.layernum),
                    !.curr_layer = <<l>>]

\* one pass of the for loop of Gcode.parse over the line l, entered with
\* curr_layer = [] as cur; st holds the locals in_preamble, layernum,
\* curr_layer and the fields preamble, layers
HeuristicStep(st, l, cur) ==
    IF IsLayerStart(l)
    THEN LayerStartStep(st, l,
            LayerNew(cur, IF st.in_preamble THEN Some(0) ELSE Some(st.layernum)))
    ELSE [st EXCEPT !.curr_layer = Append(cur, l)]

\* the for loop of Gcode.parse over the lines ls
RECURSIVE HeuristicLoop(_, _)
HeuristicLoop(st, ls) ==
    IF ls = <<>> \/ st.err # "ok" THEN st
    ELSE With(HeuristicStep(st, ls[1], <<>>), LAMBDA nst :
            HeuristicLoop(nst, Tail(ls)))

\* variant of HeuristicEnd: no layer appended after the loop
HeuristicEndNoAppend(st, last) ==
    [preamble |-> st.preamble, layers |-> st.layers,
     err |-> IF st.err # "ok" THEN st.err ELSE last.err]

\* self.layers.append(Layer(curr_layer)) after the loop, last being
\* Layer(curr_layer)
HeuristicEnd(st, last) ==
    IF st.err # "ok"
    THEN [preamble |-> st.preamble, layers |-> st.layers, err |-> st.err]
    ELSE IF last.err # "ok"
    THEN [preamble |-> st.preamble, layers |-> st.layers, err |-> last.err]
    ELSE [preamble |-> st.preamble,
          layers |-> Append(st.layers, last.obj), err |-> "ok"]

\* the branch of Gcode.parse for text without ';LAYER:'
ParseHeuristic(pre, lay, fs) ==
    With(HeuristicLoop([in_preamble |-> TRUE, layernum |-> 1,
                        curr_layer |-> <<>>, preamble |-> pre,
                        layers |-> lay, err |-> "ok"],
                       SplitAll(fs, "\n")),
         LAMBDA st : HeuristicEnd(st, LayerNew(st.curr_layer, None)))

\* the branch of Gcode.parse that a text takes
ParseBranch(fs) ==
    IF fs = <<>> THEN "empty"
    ELSE IF Contains(fs, LayerMark) THEN "marker"
    ELSE "heuristic"

\* Gcode.parse(filestring) on an object whose fields are pre and lay: the
\* fields afterwards, and "ok" or the exception that ended the call
GcodeParse(pre, lay, fs) ==
    With(ParseBranch(fs), LAMBDA branch :
        IF branch = "empty" THEN [preamble |-> pre, layers |-> lay, err |-> "ok"]
        ELSE IF branch = "marker" THEN ParseMarker(pre, lay, fs)
        ELSE ParseHeuristic(pre, lay, fs))

\* the positions of seq[start:] for a Python index start (1-based positions)
SliceFrom(n, start) ==
    (IF start >= 0 THEN start + 1
     ELSE IF n + start < 0 THEN 1 ELSE n + start + 1)..n

\* Gcode.shift(layernum, **kwargs): the layers afterwards
GcodeShift(lay, layernum, kwargs) ==
    [i \in 1..Len(lay) |->
        IF i \in SliceFrom(Len(lay), layernum)
        THEN LayerShift(lay[i], kwargs) ELSE lay[i]]

\* ';LAYER:%d\n' % i
MarkerLine(i) == LayerMark \o NatChars(i) \o <<"\n">>

\* the for loop of Gcode.construct from position i on
RECURSIVE ConstructFrom(_, _, _)
ConstructFrom(lay, i, ord) ==
    IF i > Len(lay) THEN <<>>
    ELSE MarkerLine(i - 1) \o LayerConstruct(lay[i], ord) \o <<"\n">>
             \o ConstructFrom(lay, i + 1, ord)

\* Gcode.construct
GcodeConstruct(pre, lay, ord) ==
    (IF pre # None THEN LayerConstruct(pre[1], ord) \o <<"\n">> ELSE <<>>)
        \o ConstructFrom(lay, 1, ord)

---------------------------------------------------------------------------
(* The inputs of the model: lines of gcode, and files made of them *)

\* a layer-start line: G1 Z1
TxtZ == <<"G", "1", " ", "Z", "1">>
\* an instruction with X and Y: G1 X5 Y5
TxtXY == <<"G", "1", " ", "X", "5", " ", "Y", "5">>
\* a layer marker: ;LAYER:7
TxtMark == <<";", "L", "A", "Y", "E", "R", ":", "7">>
\* a layer marker with a negative integer: ;LAYER:-1
TxtMarkNeg == <<";", "L", "A", "Y", "E", "R", ":", "-", "1">>
\* ';LAYER:' with a suffix that is no integer: ;LAYER:x
TxtMarkBad == <<";", "L", "A", "Y", "E", "R", ":", "x">>
\* an instruction with ';LAYER:' in its comment: G1 X1 ;LAYER:1
TxtTrail == <<"G", "1", " ", "X", "1", " ", ";", "L", "A", "Y", "E", "R", ":", "1">>
\* a full-line comment: ;c
TxtComment == <<";", "c">>
\* an argument that is no number: G1 Xa
TxtBad == <<"G", "1", " ", "X", "a">>
\* a layer-start line with Y: G1 Z1 Y1
TxtZY == <<"G", "1", " ", "Z", "1", " ", "Y", "1">>
\* a float Y and no X: G1 Y2.5
TxtYf == <<"G", "1", " ", "Y", "2", ".", "5">>
\* X and no Y: G1 X1
TxtX == <<"G", "1", " ", "X", "1">>
\* a negative X: G0 X-1 Y7
TxtNeg == <<"G", "0", " ", "X", "-", "1", " ", "Y", "7">>
\* a float X equal to the int 5: G1 X5.0 Y-3
TxtXfY == <<"G", "1", " ", "X", "5", ".", "0", " ", "Y", "-", "3">>
\* a float that str() prints as 1e-05: G1 E0.00001
TxtTiny == <<"G", "1", " ", "E", "0", ".", "0", "0", "0", "0", "1">>
\* an M117 message: M117 Hi
TxtMsg == <<"M", "1", "1", "7", " ", "H", "i">>

\* lines.join('\n'), with a closing line break when nl
FileText(ls, nl) == Join(<<"\n">>, ls) \o (IF nl THEN <<"\n">> ELSE <<>>)

\* the files of 1..MaxLines lines of pool, with and without a closing line break
Files(pool) ==
    {FileText(ls, nl) : ls \in UNION {[1..n -> pool] : n \in 1..MaxLines},
                        nl \in BOOLEAN}

ParseFiles ==
    Files({TxtZ, TxtXY, TxtMark, TxtMarkNeg, TxtMarkBad, TxtTrail, TxtComment,
           TxtBad, <<>>})
ShiftFiles == Files({TxtMark, TxtZY, TxtXY, TxtYf})
RoundFiles == Files({TxtMark, TxtZ, TxtXY, TxtTiny, TxtMsg})

\* the lines given to Layer(...) in SpecLayer
LayerLines == {TxtXY, TxtX, TxtYf, TxtNeg, TxtXfY, TxtZ}

\* Gcode.shift calls: layernum and **kwargs
ShiftFrom == {-1, 0, 1, 2}
ShiftKwargs == {("Y" :> IntV(-10)), ("X" :> IntV(5) @@ "Y" :> IntV(-10))}

\* the texts given to Line(...) in SpecLine: a code, up to MaxArgs argument
\* tokens or an M117 message, and no comment, an empty one or ';c'
ArgTokens == {<<"X", "5">>, <<"Y", "2", ".", "5">>, <<"7">>,
              <<"E", "0", ".", "0", "0", "0", "0", "1">>, <<"X", "a">>}
Messages == {<<"H", "i">>, <<"H", "i", " ", " ", "y", "o", "u">>}
Comments == {None, Some(<<>>), Some(<<"c">>)}
WithComment(t, c) == IF c = None THEN t ELSE t \o <<" ", ";">> \o c[1]
LineTexts ==
    {WithComment(Join(<<" ">>, <<<<"G", "1">>>> \o toks), c) :
        toks \in UNION {[1..n -> ArgTokens] : n \in 0..MaxArgs}, c \in Comments}
    \cup {WithComment(M117 \o <<" ">> \o m, c) : m \in Messages, c \in Comments}

---------------------------------------------------------------------------
(* The state machine *)

Init ==
    /\ ltext = <<>> /\ lobj = None /\ lout = None /\ lobj2 = None
    /\ layer = None /\ ext = None
    \* g = Gcode(): parse('') returns at once
    /\ filestring = <<>> /\ preamble = None /\ layers = <<>>
    /\ perr = "none" /\ pmode = "none"
    /\ shifted = None /\ out = None /\ re = None

lineVars == <<ltext, lobj, lout, lobj2>>
layerVars == <<layer, ext>>
gcodeVars == <<filestring, preamble, layers, perr, pmode, shifted, out, re>>

\* l = Line(text)
LineInit(text) ==
    /\ lobj = None
    /\ ltext' = text
    /\ lobj' = Some(LineNew(text))
    /\ UNCHANGED <<lout, lobj2, layerVars, gcodeVars>>

\* s = l.construct()
LineFormat(ord) ==
    /\ lobj # None /\ lobj[1].err = "ok" /\ lout = None
    /\ lout' = Some(LineConstruct(lobj[1].obj, ord))
    /\ UNCHANGED <<ltext, lobj, lobj2, layerVars, gcodeVars>>

\* l2 = Line(s)
LineReparse ==
    /\ lout # None /\ lobj2 = None
    /\ lobj2' = Some(LineNew(lout[1]))
    /\ UNCHANGED <<ltext, lobj, lout, layerVars, gcodeVars>>

\* layer = Layer(lines)
LayerInit(ls) ==
    /\ layer = None
    /\ layer' = Some(LayerNew(ls, None))
    /\ UNCHANGED <<ext, lineVars, gcodeVars>>

\* layer.extents()
Extents ==
    /\ layer # None /\ layer[1].err = "ok" /\ ext = None
    /\ ext' = Some(LayerExtents(layer[1].obj))
    /\ UNCHANGED <<layer, lineVars, gcodeVars>>

\* g.parse(fs), the first parse of the object
Parse(fs) ==
    /\ perr = "none"
    /\ \E r \in {GcodeParse(preamble, layers, fs)} :
           /\ preamble' = r.preamble
           /\ layers' = r.layers
           /\ perr' = r.err
    /\ pmode' = ParseBranch(fs)
    /\ filestring' = fs
    /\ UNCHANGED <<shifted, out, re, lineVars, layerVars>>

\* g.shift(layernum, **kwargs)
Shift(layernum, kwargs) ==
    /\ perr = "ok" /\ shifted = None
    /\ layers' = GcodeShift(layers, layernum, kwargs)
    /\ shifted' = Some([layernum |-> layernum, kwargs |-> kwargs,
                        before |-> layers, preamble_before |-> preamble])
    /\ UNCHANGED <<filestring, preamble, perr, pmode, out, re, lineVars, layerVars>>

\* s = g.construct()
Construct(ord) ==
    /\ perr = "ok" /\ out = None
    /\ out' = Some(GcodeConstruct(preamble, layers, ord))
    /\ UNCHANGED <<filestring, preamble, layers, perr, pmode, shifted, re,
                   lineVars, layerVars>>

\* g2 = Gcode(s)
Reparse ==
    /\ out # None /\ re = None
    /\ re' = Some(GcodeParse(None, <<>>, out[1]))
    /\ UNCHANGED <<filestring, preamble, layers, perr, pmode, shifted, out,
                   lineVars, layerVars>>

NextLine ==
    \/ \E text \in LineTexts : LineInit(text)
    \/ \E ord \in KeyOrders : LineFormat(ord)
    \/ LineReparse

NextLayer ==
    \/ \E ls \in UNION {[1..n -> LayerLines] : n \in 0..MaxLayerLines} : LayerInit(ls)
    \/ Extents

NextParse == \E fs \in ParseFiles : Parse(fs)

NextShift ==
    \/ \E fs \in ShiftFiles : Parse(fs)
    \/ \E n \in ShiftFrom, kw \in ShiftKwargs : Shift(n, kw)

NextRound ==
    \/ \E fs \in RoundFiles : Parse(fs)
    \/ \E ord \in KeyOrders : Construct(ord)
    \/ Reparse

SpecLine == Init /\ [][NextLine]_vars
SpecLayer == Init /\ [][NextLayer]_vars
SpecParse == Init /\ [][NextParse]_vars
SpecShift == Init /\ [][NextShift]_vars
SpecRound == Init /\ [][NextRound]_vars

---------------------------------------------------------------------------
(* What the claims speak of *)

\* the lines of the text given to parse
InputLines == SplitAll(filestring, "\n")

\* the lines that are neither blank nor a full-line comment
Instructions(ls) == SelectSeq(ls, LAMBDA l : l # <<>> /\ l[1] # ";")

\* the Lines of a Layer or of None
LinesOfOpt(l) == IF l = None THEN <<>> ELSE l[1].lines

RECURSIVE AllLines(_)
AllLines(lay) == IF lay = <<>> THEN <<>> ELSE lay[1].lines \o AllLines(Tail(lay))

\* ls[a..b] holds exactly the instruction lines that became the Lines got
IsLinesOf(got, ls) ==
    /\ Len(got) = Len(Instructions(ls))
    /\ \A i \in 1..Len(got) :
          LineNew(Instructions(ls)[i]) = [err |-> "ok", obj |-> got[i]]

\* the positions in ls where P holds, in order
Positions(ls, P(_)) ==
    SelectSeq([i \in 1..Len(ls) |-> i], LAMBDA i : P(ls[i]))

\* the lines after position pos[i] and before pos[i + 1] (or the end)
Segment(ls, pos, i) ==
    SubSeq(ls, pos[i] + 1, IF i < Len(pos) THEN pos[i + 1] - 1 ELSE Len(ls))

Max2(a, b) == IF a > b THEN a ELSE b

---------------------------------------------------------------------------
(* C1 *)

\* C1: for every well-formed line L, parsing L, formatting the result with
\* Line.construct and parsing that text again gives a Line with the same
\* code, the same argument map and the same comment as the first parse.
C1_LineRoundTrip ==
    lobj2 # None =>
        /\ lobj2[1].err = "ok"
        /\ lobj2[1].obj.code = lobj[1].obj.code
        /\ lobj2[1].obj.args = lobj[1].obj.args
        /\ lobj2[1].obj.comment = lobj[1].obj.comment

---------------------------------------------------------------------------
(* C2 *)

\* the layers start, each with its layer-start line, at the layer-start lines
\* of ls, and the preamble holds what stands before the first of them
SegmentedAtLayerStarts(ls) ==
    LET pos == Positions(ls, IsLayerStart)
    IN  IF pos = <<>>
        THEN /\ LinesOfOpt(preamble) = <<>>
             /\ Len(layers) = 1
             /\ IsLinesOf(layers[1].lines, ls)
        ELSE /\ preamble # None
             /\ IsLinesOf(preamble[1].lines, SubSeq(ls, 1, pos[1] - 1))
             /\ Len(layers) = Len(pos)
             /\ \A i \in 1..Len(pos) :
                   IsLinesOf(layers[i].lines, <<ls[pos[i]]>> \o Segment(ls, pos, i))

\* C2: in heuristic mode every input line that is neither blank nor a
\* full-line comment is exactly one Line of the document, in source order:
\* the lines before the first layer-start line in the preamble, each
\* layer-start line first in its own layer, every other line in the layer
\* that was open when it was read.
C2_HeuristicContentPreserved ==
    (perr = "ok" /\ pmode = "heuristic") =>
        /\ IsLinesOf(LinesOfOpt(preamble) \o AllLines(layers), InputLines)
        /\ SegmentedAtLayerStarts(InputLines)

---------------------------------------------------------------------------
(* C3 *)

\* a line of the form ;LAYER:<integer>
IsMarkerText(l) == MatchAt(l, 1, LayerMark) /\ IntOk(From(l, Len(LayerMark) + 1))

\* a line of the form ;LAYER:<digits>
IsDigitMarkerText(l) ==
    /\ MatchAt(l, 1, LayerMark)
    /\ Len(l) > Len(LayerMark)
    /\ AllDigits(From(l, Len(LayerMark) + 1))

\* the lines of the input that a line break ends: all but the last piece
EndedLines == SubSeq(InputLines, 1, Len(InputLines) - 1)

\* the document is the input cut at the marker lines at the positions pos:
\* one layer per marker, indexed by position from 0, the preamble before the
\* first marker with index 0, and no marker line among the Lines
SegmentedAtMarkers(pos) ==
    /\ Len(layers) = Len(pos)
    /\ \A i \in 1..Len(layers) :
          /\ layers[i].layernum = Some(i - 1)
          /\ IsLinesOf(layers[i].lines, Segment(InputLines, pos, i))
    /\ preamble # None
    /\ preamble[1].layernum = Some(0)
    /\ IsLinesOf(preamble[1].lines, SubSeq(InputLines, 1, pos[1] - 1))

\* C3 as stated: input with n >= 1 lines of the form ;LAYER:<integer> (each
\* ended by a line break) gives exactly n layers in source order, the layer
\* at position i with stored index i, the text before the first marker as
\* the preamble with index 0, and no marker line kept as a Line.
C3_AsStated ==
    (perr = "ok" /\ Positions(EndedLines, IsMarkerText) # <<>>) =>
        SegmentedAtMarkers(Positions(EndedLines, IsMarkerText))

\* C3, amended: the same, for the n >= 1 lines that are ;LAYER: followed by
\* one or more decimal digits and ended by a line break, when the parse
\* completes.
C3_MarkerSegmentation ==
    (perr = "ok" /\ Positions(EndedLines, IsDigitMarkerText) # <<>>) =>
        SegmentedAtMarkers(Positions(EndedLines, IsDigitMarkerText))

\* two markers, whose integer 7 is not their position, and a layer with a Line
C3_Witness ==
    /\ perr = "ok"
    /\ Len(Positions(EndedLines, IsDigitMarkerText)) = 2
    /\ Len(layers) = 2
    /\ layers[1].lines # <<>>
    /\ layers[2].layernum = Some(1)

---------------------------------------------------------------------------
(* C5 *)

\* the number of layer-start lines of the input
LayerStarts == Len(Positions(InputLines, IsLayerStart))

---------------------------------------------------------------------------
(* C6 *)

\* C6: parse takes the marker branch if and only if some line of the input
\* starts with ';LAYER:' followed by an integer and is ended by a line break;
\* every other non-empty input is segmented by the heuristic branch.
C6_ModeSelection ==
    (perr # "none" /\ filestring # <<>>) =>
        (pmode = "marker" <=> Positions(EndedLines, IsMarkerText) # <<>>)

---------------------------------------------------------------------------
(* C7 *)

\* C7: when parse fails on an argument that is no number, the preamble and
\* the layers of the object are what they were before the call: no preamble
\* and no layers.
C7_ParseAtomic == perr = "ValueError" => (preamble = None /\ layers = <<>>)

---------------------------------------------------------------------------
(* C10 *)

\* C10 as stated: after a heuristic-mode parse of non-empty input every
\* layer, the final one included, has stored index 1.
C10_AsStated ==
    (perr = "ok" /\ pmode = "heuristic") =>
        \A i \in 1..Len(layers) : layers[i].layernum = Some(1)

\* C10, amended: after a parse of non-empty input without ';LAYER:' markers
\* every layer but the last has stored index 1, and the last layer, the one
\* appended at the end of the input, has no stored index (None).
C10_HeuristicIndex ==
    (perr = "ok" /\ filestring # <<>>
                 /\ Positions(EndedLines, IsDigitMarkerText) = <<>>) =>
        /\ pmode = "heuristic" => Len(layers) >= 1
        /\ \A i \in 1..(Len(layers) - 1) : layers[i].layernum = Some(1)
        /\ Len(layers) >= 1 => layers[Len(layers)].layernum = None

\* three layers: two appended in the loop, one at the end of the input
C10_Witness ==
    /\ perr = "ok" /\ pmode = "heuristic"
    /\ Len(layers) = 3
    /\ layers[2].layernum = Some(1)

---------------------------------------------------------------------------
(* C4 *)

\* the line now is the line old with delta added to every argument it has
\* among the letters of kwargs when sel, and is old when not sel
LineShiftedBy(old, now, kwargs, sel) ==
    /\ now.line = old.line /\ now.code = old.code /\ now.comment = old.comment
    /\ DOMAIN now.args = DOMAIN old.args
    /\ \A k \in DOMAIN old.args :
          now.args[k] = IF sel /\ k \in DOMAIN kwargs
                        THEN NumAdd(old.args[k], kwargs[k])
                        ELSE old.args[k]

\* the layer now is the layer old with its lines shifted when sel
LayerShiftedBy(old, now, kwargs, sel) ==
    /\ now.layernum = old.layernum
    /\ now.preamble = old.preamble
    /\ now.postamble = old.postamble
    /\ Len(now.lines) = Len(old.lines)
    /\ \A j \in 1..Len(old.lines) :
          LineShiftedBy(old.lines[j], now.lines[j], kwargs, sel)

\* C4: shift(from_layer_index, deltas) adds delta to the letter argument of
\* every line that has the letter in exactly the layers whose stored index
\* is >= from_layer_index, and leaves unchanged the other layers, the
\* document preamble, each layer's preamble and postamble lines and the key
\* set of every line.
C4_ShiftByStoredIndex ==
    shifted # None =>
        /\ preamble = shifted[1].preamble_before
        /\ Len(layers) = Len(shifted[1].before)
        /\ \A i \in 1..Len(layers) :
              LayerShiftedBy(shifted[1].before[i], layers[i], shifted[1].kwargs,
                             /\ layers[i].layernum # None
                             /\ layers[i].layernum[1] >= shifted[1].layernum)

---------------------------------------------------------------------------
(* C8 *)

\* the Lines of the layer built in SpecLayer
ExtLines == layer[1].obj.lines

Carries(axis) == \E i \in 1..Len(ExtLines) : axis \in DOMAIN ExtLines[i].args

\* v is the value of axis on some line and no line has a smaller one
IsMinOver(v, axis) ==
    /\ \E i \in 1..Len(ExtLines) :
          axis \in DOMAIN ExtLines[i].args /\ ExtLines[i].args[axis] = v
    /\ \A i \in 1..Len(ExtLines) :
          axis \in DOMAIN ExtLines[i].args => ~NumLess(ExtLines[i].args[axis], v)

\* v is the value of axis on some line and no line has a greater one
IsMaxOver(v, axis) ==
    /\ \E i \in 1..Len(ExtLines) :
          axis \in DOMAIN ExtLines[i].args /\ ExtLines[i].args[axis] = v
    /\ \A i \in 1..Len(ExtLines) :
          axis \in DOMAIN ExtLines[i].args => ~NumLess(v, ExtLines[i].args[axis])

\* C8: for a layer where some line carries X and some line carries Y,
\* extents returns (min_x, min_y, max_x, max_y), each the minimum or maximum
\* of its axis over exactly the lines that carry the axis; the single line
\* 'G1 X5 Y5' gives (5, 5, 5, 5).
C8_Extents ==
    (ext # None /\ Carries("X") /\ Carries("Y")) =>
        /\ ext[1].err = "ok"
        /\ IsMinOver(ext[1].val[1], "X")
        /\ IsMinOver(ext[1].val[2], "Y")
        /\ IsMaxOver(ext[1].val[3], "X")
        /\ IsMaxOver(ext[1].val[4], "Y")
        /\ ExtLines = <<LineNew(TxtXY).obj>> =>
              ext[1].val = <<IntV(5), IntV(5), IntV(5), IntV(5)>>

\* extents of a layer where a line lacks X, another lacks Y, and every X is
\* above zero
C8_Witness ==
    /\ ext # None /\ ext[1].err = "ok"
    /\ \E i \in 1..Len(ExtLines) : "X" \notin DOMAIN ExtLines[i].args
    /\ \E i \in 1..Len(ExtLines) : "Y" \notin DOMAIN ExtLines[i].args
    /\ NumLess(IntV(0), ext[1].val[1])

---------------------------------------------------------------------------
(* C9 *)

\* the lines of the constructed text that start with ;LAYER:
OutMarkers ==
    SelectSeq(SplitAll(out[1], "\n"), LAMBDA l : MatchAt(l, 1, LayerMark))

\* C9: for a parsed document of N >= 1 layers, construct emits exactly one
\* ';LAYER:<i>' line per layer, i = 0..N-1 by position, and parsing the
\* output gives a document with as many layers, as many lines in each layer
\* and as many lines in the preamble (none for an absent preamble).
C9_DocumentRoundTrip ==
    (re # None /\ Len(layers) >= 1) =>
        /\ OutMarkers = [i \in 1..Len(layers) |-> LayerMark \o NatChars(i - 1)]
        /\ re[1].err = "ok"
        /\ Len(re[1].layers) = Len(layers)
        /\ \A i \in 1..Len(layers) :
              Len(re[1].layers[i].lines) = Len(layers[i].lines)
        /\ Len(LinesOfOpt(re[1].preamble)) = Len(LinesOfOpt(preamble))

====
